---------------------------- MODULE Spec2Model ----------------------------
(* A model of meu_extrator.py: the four field extractors (find_label_value, *)
(* extract_matricula, extract_numero_processo, extract_last_date), the     *)
(* folder processor (process_folder) and main.                             *)
(*                                                                         *)
(* A text is a sequence of characters; a character is a one-element name:  *)
(* an ASCII character stands for itself, and the non-ASCII characters are  *)
(* named: "o_ord" is U+00BA (masculine ordinal), "i_acute" U+00ED,         *)
(* "I_acute" U+00CD, "I_dot" U+0130 (capital I with dot above) and         *)
(* "dot_above" U+0307 (combining dot above).                               *)
EXTENDS Integers, Sequences, FiniteSets

VARIABLES
    pc,         \* main: "main", "loop", "write", "done"
    folder_ok,  \* folder.exists() and folder.is_dir()
    files,      \* the folder: file name -> [ext, doc, fault]
    pdfs,       \* process_folder: sorted(folder.glob("*.pdf"))
    i,          \* process_folder: number of elements of pdfs consumed by the for loop
    rows,       \* process_folder: the list of row dicts
    df,         \* the DataFrame returned by process_folder
    written,    \* the output files written so far (to_excel / to_csv calls)
    text,       \* argument of the extractor under test
    label,      \* find_label_value: label
    max_chars,  \* find_label_value: max_chars
    result,     \* value returned by the extractor under test
    called      \* the extractor under test has returned

vars == <<pc, folder_ok, files, pdfs, i, rows, df, written,
          text, label, max_chars, result, called>>

mainVars == <<pc, folder_ok, files, pdfs, i, rows, df, written>>
callVars == <<text, label, max_chars, result, called>>

-----------------------------------------------------------------------------
(* Python values *)

None == [type |-> "NoneType"]
Str(s) == [type |-> "str", chars |-> s]

-----------------------------------------------------------------------------
(* Characters and the classes the regular expressions and str methods use *)

Digits == {"0", "1", "2", "3", "4", "5", "6", "7", "8", "9"}
AsciiUpper == <<"A", "B", "C", "D", "E", "F", "G", "H", "I", "J", "K", "L", "M",
                "N", "O", "P", "Q", "R", "S", "T", "U", "V", "W", "X", "Y", "Z">>
AsciiLower == <<"a", "b", "c", "d", "e", "f", "g", "h", "i", "j", "k", "l", "m",
                "n", "o", "p", "q", "r", "s", "t", "u", "v", "w", "x", "y", "z">>
Range(s) == {s[k] : k \in DOMAIN s}

\* \d
IsDigit(c) == c \in Digits
\* \s, str.isspace(), the separators of str.split()
IsSpace(c) == c \in {" ", "\n", "\t", "\r"}
\* the line boundaries of str.splitlines()
IsLineBreak(c) == c \in {"\n", "\r"}
\* \w (str patterns: Unicode alphanumerics and the underscore)
IsWord(c) == \/ c \in Digits
             \/ c \in Range(AsciiUpper) \cup Range(AsciiLower)
             \/ c \in {"_", "o_ord", "i_acute", "I_acute", "I_dot"}

\* simple one-to-one lower-casing, as used by re.IGNORECASE
lower_char(c) ==
    IF c \in Range(AsciiUpper)
    THEN AsciiLower[CHOOSE k \in DOMAIN AsciiUpper : AsciiUpper[k] = c]
    ELSE IF c = "I_acute" THEN "i_acute"
    ELSE c

\* re.IGNORECASE comparison of a text character with a pattern character
EqIgnoreCase(c, p) == lower_char(c) = lower_char(p)

\* the character at 1-based position k of t, "" outside the text
At(t, k) == IF k \in DOMAIN t THEN t[k] ELSE ""

\* \b at the gap before position k
WordBoundary(t, k) == IsWord(At(t, k - 1)) # IsWord(At(t, k))

\* The result of trying a pattern at a position: end is the position after
\* the match (0: no match), gs and ge delimit group 1 (0: no group).
NoMatch == [end |-> 0, gs |-> 0, ge |-> 0]
Match(e) == [end |-> e, gs |-> 0, ge |-> 0]
MatchGroup(e, s1, e1) == [end |-> e, gs |-> s1, ge |-> e1]

\* a literal of the pattern matched at position k: the position after it, else 0
Literal(t, k, lit, ignorecase) ==
    IF \A n \in DOMAIN lit :
          IF ignorecase THEN EqIgnoreCase(At(t, k + n - 1), lit[n])
                        ELSE At(t, k + n - 1) = lit[n]
    THEN k + Len(lit) ELSE 0

Min(a, b) == IF a < b THEN a ELSE b
SetMax(S) == CHOOSE x \in S : \A y \in S : y <= x
SetMin(S) == CHOOSE x \in S : \A y \in S : x <= y

\* the character classes of the patterns
InClass(cls, c) ==
    CASE cls = "digit" -> IsDigit(c)                           \* \d
      [] cls = "space" -> IsSpace(c)                           \* \s
      [] cls = "colon_space" -> c = ":" \/ IsSpace(c)          \* [:\s]
      [] cls = "number" -> IsDigit(c) \/ c \in {"/", ".", "-"} \* [0-9\/\.\-], [\d\.\-\/]
      [] cls = "month" ->                                      \* [a-z...] with re.IGNORECASE
            lower_char(c) \in Range(AsciiLower) \cup
                {"c_cedilla", "o_tilde", "e_acute", "e_circ", "a_acute",
                 "i_acute", "u_acute", "a_circ", "o_acute"}

\* end of the longest run of characters of a class starting at k
RunEnd(t, k, cls) ==
    CHOOSE j \in k..(Len(t) + 1) :
        /\ \A n \in k..(j - 1) : InClass(cls, t[n])
        /\ j = Len(t) + 1 \/ ~InClass(cls, t[j])

\* A greedy quantifier cls{lo,hi} at position k: the positions after the
\* repetition in the order the regex engine tries them, the longest
\* repetition first, backing off one character at a time down to lo.
Backoff(t, k, cls, lo, hi) ==
    LET top == Min(RunEnd(t, k, cls), k + hi)
    IN  [n \in 1..(top - (k + lo) + 1) |-> top + 1 - n]

\* The first success among tried continuations: tried is a set of
\* <<rank, result>>, the result of the lowest rank that is a match.
FirstOf(tried) ==
    LET good == {p \in tried : p[2].end # 0}
    IN  IF good = {} THEN NoMatch
        ELSE (CHOOSE p \in good : \A q \in good : p[1] <= q[1])[2]

\* Alternatives (A|B|...) each continued by the rest of the pattern: the
\* first alternative, in the order written, whose continuation succeeds.
FirstMatch(alts) == FirstOf({<<n, alts[n]>> : n \in DOMAIN alts})

\* text[a:b] for 1-based a (inclusive) and b (exclusive), clipped to the text
Slice(t, a, b) ==
    LET e == Min(b, Len(t) + 1)
    IN  IF a >= e THEN <<>> ELSE SubSeq(t, a, e - 1)

\* str.strip()
strip(s) ==
    LET keep == {k \in DOMAIN s : ~IsSpace(s[k])}
    IN  IF keep = {} THEN <<>> ELSE SubSeq(s, SetMin(keep), SetMax(keep))

-----------------------------------------------------------------------------
(* The patterns of extract_last_date *)

\* \d{n} at position k: the position after it, else 0
DigitsExactly(t, k, n) ==
    IF \A d \in 0..(n - 1) : IsDigit(At(t, k + d)) THEN k + n ELSE 0

\* \b\d{1,2}\s+de\s+[a-z...]+\s+de\s+\d{4}\b (re.IGNORECASE) tried at k
long_date(t, k) ==
    LET \* \d{4}\b
        year(h) ==
            LET y == DigitsExactly(t, h, 4)
            IN  IF y # 0 /\ WordBoundary(t, y) THEN Match(y) ELSE NoMatch
        \* \s+ then the year
        space4(g) ==
            LET c == Backoff(t, g, "space", 1, Len(t))
            IN  FirstOf({<<n, year(c[n])>> : n \in DOMAIN c})
        \* de
        de2(f) ==
            LET g == Literal(t, f, <<"d", "e">>, TRUE)
            IN  IF g = 0 THEN NoMatch ELSE space4(g)
        \* \s+
        space3(e) ==
            LET c == Backoff(t, e, "space", 1, Len(t))
            IN  FirstOf({<<n, de2(c[n])>> : n \in DOMAIN c})
        \* [a-z...]+
        month(d) ==
            LET c == Backoff(t, d, "month", 1, Len(t))
            IN  FirstOf({<<n, space3(c[n])>> : n \in DOMAIN c})
        \* \s+
        space2(b) ==
            LET c == Backoff(t, b, "space", 1, Len(t))
            IN  FirstOf({<<n, month(c[n])>> : n \in DOMAIN c})
        \* de
        de1(a) ==
            LET b == Literal(t, a, <<"d", "e">>, TRUE)
            IN  IF b = 0 THEN NoMatch ELSE space2(b)
        \* \s+
        space1(a) ==
            LET c == Backoff(t, a, "space", 1, Len(t))
            IN  FirstOf({<<n, de1(c[n])>> : n \in DOMAIN c})
        \* \d{1,2}
        day == Backoff(t, k, "digit", 1, 2)
    IN  IF ~WordBoundary(t, k) THEN NoMatch
        ELSE FirstOf({<<n, space1(day[n])>> : n \in DOMAIN day})

\* \b\d{2}/\d{2}/\d{4}\b tried at k
numeric_date(t, k) ==
    IF /\ WordBoundary(t, k)
       /\ DigitsExactly(t, k, 2) # 0
       /\ At(t, k + 2) = "/"
       /\ DigitsExactly(t, k + 3, 2) # 0
       /\ At(t, k + 5) = "/"
       /\ DigitsExactly(t, k + 6, 4) # 0
       /\ WordBoundary(t, k + 10)
    THEN Match(k + 10) ELSE NoMatch

-----------------------------------------------------------------------------
(* The patterns of extract_numero_processo *)

CaptureMin == 4
CaptureMax == 25
TokenMinDigits == 3
TokenMaxDigits == 8
YearMinDigits == 2
YearMaxDigits == 4

\* Processo(?:\s*N[<o_ord>o]|\s*N\.<o_ord>|:)?\s*([0-9\/\.\-]{4,25})
\* (re.IGNORECASE) tried at k
processo_pattern(t, k) ==
    LET p == Literal(t, k, <<"P", "r", "o", "c", "e", "s", "s", "o">>, TRUE)
        \* ([0-9\/\.\-]{4,25}) and the end of the pattern
        capture(b) ==
            LET c == Backoff(t, b, "number", CaptureMin, CaptureMax)
            IN  FirstOf({<<n, MatchGroup(c[n], b, c[n])>> : n \in DOMAIN c})
        \* \s* then the capture
        number(j) ==
            LET c == Backoff(t, j, "space", 0, Len(t))
            IN  FirstOf({<<n, capture(c[n])>> : n \in DOMAIN c})
        \* N[<o_ord>o]
        no(a) ==
            LET n == Literal(t, a, <<"N">>, TRUE)
            IN  IF n # 0 /\ (EqIgnoreCase(At(t, n), "o_ord") \/ EqIgnoreCase(At(t, n), "o"))
                THEN number(n + 1) ELSE NoMatch
        \* N\.<o_ord>
        ndot(a) ==
            LET n == Literal(t, a, <<"N", ".", "o_ord">>, TRUE)
            IN  IF n # 0 THEN number(n) ELSE NoMatch
        \* :
        colon ==
            LET n == Literal(t, p, <<":">>, TRUE)
            IN  IF n # 0 THEN number(n) ELSE NoMatch
        \* the \s* of the first two alternatives
        sp == Backoff(t, p, "space", 0, Len(t))
    IN  IF p = 0 THEN NoMatch
        ELSE FirstMatch(<<FirstOf({<<n, no(sp[n])>> : n \in DOMAIN sp}),
                          FirstOf({<<n, ndot(sp[n])>> : n \in DOMAIN sp}),
                          colon,
                          number(p)>>)

\* \b\d{3,8}(?:/\d{2,4})?\b tried at k
token_pattern(t, k) ==
    LET \* /\d{2,4} then \b
        year(a) ==
            LET s == Literal(t, a, <<"/">>, FALSE)
                c == Backoff(t, s, "digit", YearMinDigits, YearMaxDigits)
            IN  IF s = 0 THEN NoMatch
                ELSE FirstOf({<<n, IF WordBoundary(t, c[n]) THEN Match(c[n]) ELSE NoMatch>> :
                                 n \in DOMAIN c})
        \* (?:/\d{2,4})?\b
        tail(a) ==
            FirstMatch(<<year(a), IF WordBoundary(t, a) THEN Match(a) ELSE NoMatch>>)
        \* \d{3,8}
        digits == Backoff(t, k, "digit", TokenMinDigits, TokenMaxDigits)
    IN  IF ~WordBoundary(t, k) THEN NoMatch
        ELSE FirstOf({<<n, tail(digits[n])>> : n \in DOMAIN digits})

-----------------------------------------------------------------------------
(* The patterns of extract_matricula *)

\* Matr[i<i_acute>]cula (re.IGNORECASE) at k: the position after it, else 0
matricula_word(t, k) ==
    LET a == Literal(t, k, <<"M", "a", "t", "r">>, TRUE)
        b == IF a # 0 /\ (EqIgnoreCase(At(t, a), "i") \/ EqIgnoreCase(At(t, a), "i_acute"))
             THEN a + 1 ELSE 0
    IN  IF b = 0 THEN 0 ELSE Literal(t, b, <<"c", "u", "l", "a">>, TRUE)

\* ([\d\.\-\/]+) and the end of the pattern
matricula_value(t, j) ==
    LET c == Backoff(t, j, "number", 1, Len(t))
    IN  FirstOf({<<n, MatchGroup(c[n], j, c[n])>> : n \in DOMAIN c})

\* a variant whose label must be followed by a colon: Matr[i<i_acute>]cula:\s*(...)
matricula_primary_colon(t, k) ==
    LET w == matricula_word(t, k)
        a == IF w = 0 THEN 0 ELSE Literal(t, w, <<":">>, FALSE)
        c == Backoff(t, a, "space", 0, Len(t))
    IN  IF a = 0 THEN NoMatch
        ELSE FirstOf({<<n, matricula_value(t, c[n])>> : n \in DOMAIN c})

\* Matr[i<i_acute>]cula[:\s]*([\d\.\-\/]+) (re.IGNORECASE) tried at k
matricula_primary(t, k) ==
    LET w == matricula_word(t, k)
        c == Backoff(t, w, "colon_space", 0, Len(t))
    IN  IF w = 0 THEN NoMatch
        ELSE FirstOf({<<n, matricula_value(t, c[n])>> : n \in DOMAIN c})

\* Matr[i<i_acute>]cula\s+([\d\.\-\/]+) (re.IGNORECASE) tried at k
matricula_secondary(t, k) ==
    LET w == matricula_word(t, k)
        c == Backoff(t, w, "space", 1, Len(t))
    IN  IF w = 0 THEN NoMatch
        ELSE FirstOf({<<n, matricula_value(t, c[n])>> : n \in DOMAIN c})

-----------------------------------------------------------------------------
(* re.finditer, re.search, re.findall *)

\* the pattern of that name tried at position k of t
Try(pat, t, k) ==
    CASE pat = "long_date" -> long_date(t, k)
      [] pat = "numeric_date" -> numeric_date(t, k)
      [] pat = "processo_pattern" -> processo_pattern(t, k)
      [] pat = "token_pattern" -> token_pattern(t, k)
      [] pat = "matricula_primary" -> matricula_primary(t, k)
      [] pat = "matricula_secondary" -> matricula_secondary(t, k)

\* re.finditer: the leftmost match, then the leftmost match at or after its
\* end, and so on (no pattern here matches the empty string)
finditer(t, pat) ==
    LET scan(tries) ==
            LET f[pos \in 1..(Len(t) + 1)] ==
                    IF pos > Len(t) THEN <<>>
                    ELSE IF tries[pos].end # 0
                    THEN <<[start |-> pos, end |-> tries[pos].end, m |-> tries[pos]]>>
                         \o f[tries[pos].end]
                    ELSE f[pos + 1]
            IN  f[1]
    IN  scan([k \in 1..Len(t) |-> Try(pat, t, k)])

\* re.search: the leftmost match, or None
search(t, pat) ==
    LET leftmost(tries) ==
            LET starts == {k \in DOMAIN tries : tries[k].end # 0}
                s == SetMin(starts)
            IN  IF starts = {} THEN None
                ELSE [start |-> s, end |-> tries[s].end, m |-> tries[s]]
    IN  leftmost([k \in 1..Len(t) |-> Try(pat, t, k)])

-----------------------------------------------------------------------------
(* extract_last_date *)

\* (m.start(), m.group().strip()) for each match, in finditer order
DateCandidates(t, pat) ==
    LET pairs(ms) ==
            [n \in DOMAIN ms |->
                <<ms[n].start - 1, strip(Slice(t, ms[n].start, ms[n].end))>>]
    IN  pairs(finditer(t, pat))

\* a variant that takes the last candidate collected: candidates[-1]
LastCandidate(candidates) == candidates[Len(candidates)]

\* max(candidates, key=lambda x: x[0]): the first element whose key no
\* other element exceeds
MaxByOffset(candidates) ==
    candidates[SetMin({n \in DOMAIN candidates :
                          \A m \in DOMAIN candidates :
                              candidates[m][1] <= candidates[n][1]})]

extract_last_date(t) ==
    LET last(candidates) ==
            IF candidates = <<>> THEN None
            ELSE Str(MaxByOffset(candidates)[2])
    IN  last(DateCandidates(t, "long_date") \o DateCandidates(t, "numeric_date"))

-----------------------------------------------------------------------------
(* extract_numero_processo *)

\* re.findall of a pattern without groups: the matched substrings
findall(t, pat) ==
    LET groups(ms) == [n \in DOMAIN ms |-> Slice(t, ms[n].start, ms[n].end)]
    IN  groups(finditer(t, pat))

\* a variant that keeps the last of the longest tokens
MaxByLenLast(tokens) ==
    tokens[SetMax({n \in DOMAIN tokens :
                      \A m \in DOMAIN tokens : Len(tokens[m]) <= Len(tokens[n])})]

\* max(tokens, key=len): the first element whose length no other exceeds
MaxByLen(tokens) ==
    tokens[SetMin({n \in DOMAIN tokens :
                      \A m \in DOMAIN tokens : Len(tokens[m]) <= Len(tokens[n])})]

\* the fallback of extract_numero_processo (step 2)
processo_fallback(t) ==
    LET choose(tokens) ==
            LET slashed == {n \in DOMAIN tokens : "/" \in Range(tokens[n])}
            IN  IF tokens # <<>>
                THEN IF slashed # {} THEN Str(tokens[SetMin(slashed)])
                     ELSE Str(MaxByLen(tokens))
                ELSE None
    IN  choose(findall(t, "token_pattern"))

\* a variant that returns the whole match: m.group(0)
extract_numero_processo_group0(t) ==
    LET step1(m) ==
            IF m # None THEN Str(strip(Slice(t, m.start, m.end)))
            ELSE processo_fallback(t)
    IN  step1(search(t, "processo_pattern"))

extract_numero_processo(t) ==
    LET step1(m) ==
            IF m # None THEN Str(strip(Slice(t, m.m.gs, m.m.ge)))
            ELSE processo_fallback(t)
    IN  step1(search(t, "processo_pattern"))

-----------------------------------------------------------------------------
(* extract_matricula *)

\* a variant that returns the whole match: m.group(0).strip()
Group0(t, m) == Str(strip(Slice(t, m.start, m.end)))

\* m.group(1).strip()
Group1(t, m) == Str(strip(Slice(t, m.m.gs, m.m.ge)))

extract_matricula(t) ==
    LET second(m2) == IF m2 # None THEN Group1(t, m2) ELSE None
        first(m) ==
            IF m # None THEN Group1(t, m)
            ELSE second(search(t, "matricula_secondary"))
    IN  first(search(t, "matricula_primary"))

-----------------------------------------------------------------------------
(* find_label_value *)

DefaultMaxChars == 300
Requerente == <<"R", "e", "q", "u", "e", "r", "e", "n", "t", "e">>

\* str.lower() of one character; U+0130 lower-cases to two characters
lower_of(c) == IF c = "I_dot" THEN <<"i", "dot_above">> ELSE <<lower_char(c)>>

\* str.lower()
RECURSIVE lower(_)
lower(s) == IF s = <<>> THEN <<>> ELSE lower_of(Head(s)) \o lower(Tail(s))

\* str.find(sub): the lowest 0-based index where sub occurs, else -1
find(s, sub) ==
    LET at == {k \in 0..(Len(s) - Len(sub)) :
                  \A n \in DOMAIN sub : s[k + n] = sub[n]}
    IN  IF at = {} THEN -1 ELSE SetMin(at)

\* str.splitlines(): the lines, without their line breaks; "\r\n" is one
\* line break and a final line break adds no empty line
RECURSIVE splitlines(_)
splitlines(s) ==
    IF s = <<>> THEN <<>>
    ELSE LET brk == {k \in DOMAIN s : IsLineBreak(s[k])}
         IN  IF brk = {} THEN <<s>>
             ELSE LET b == SetMin(brk)
                      n == IF s[b] = "\r" /\ At(s, b + 1) = "\n" THEN b + 2 ELSE b + 1
                  IN  <<SubSeq(s, 1, b - 1)>> \o splitlines(SubSeq(s, n, Len(s)))

\* " ".join(s.split()): the whitespace-separated words joined by one space
RECURSIVE join_split(_)
join_split(s) ==
    LET w == strip(s)
        sp == {k \in DOMAIN w : IsSpace(w[k])}
    IN  IF sp = {} THEN w
        ELSE SubSeq(w, 1, SetMin(sp) - 1) \o <<" ">>
             \o join_split(SubSeq(w, SetMin(sp), Len(w)))

find_label_value(t, lab, maxc) ==
    LET lo == lower(t)
        lbl == lower(lab) \o <<":">>
        idx == find(lo, lbl)
        start == idx + Len(lbl)
        snippet == Slice(t, start + 1, start + maxc + 1)
        lines == splitlines(snippet)
        nonblank == {n \in DOMAIN lines : strip(lines[n]) # <<>>}
        raw == strip(join_split(snippet))
    IN  IF idx = -1 THEN None
        ELSE IF nonblank # {} THEN Str(strip(lines[SetMin(nonblank)]))
        ELSE IF raw # <<>> THEN Str(raw) ELSE None

-----------------------------------------------------------------------------
(* extract_text *)

\* What pdfplumber gives for the documents of the model: the text of each
\* page, None for a page without extractable text.
Documents ==
    [full |->
        << <<"P", "r", "o", "c", "e", "s", "s", "o", " ", "N", "o_ord", " ",
             "2", "1", "3", "/", "2", "0", "1", "6", "\n",
             "R", "e", "q", "u", "e", "r", "e", "n", "t", "e", ":", " ",
             "A", "n", "a">>,
           <<"M", "a", "t", "r", "i_acute", "c", "u", "l", "a", ":", " ",
             "1", "9", "7", ".", "9", "4", "2", "-", "6", "\n",
             "0", "1", "/", "0", "2", "/", "2", "0", "1", "0">> >>,
     blank |-> <<None, <<>> >>]

\* "\n".join(parts)
RECURSIVE join_lines(_)
join_lines(parts) ==
    IF parts = <<>> THEN <<>>
    ELSE IF Len(parts) = 1 THEN parts[1]
    ELSE parts[1] \o <<"\n">> \o join_lines(Tail(parts))

\* page.extract_text() or "" for each page, joined by "\n"
extract_text(pages) ==
    join_lines([n \in DOMAIN pages |-> IF pages[n] = None THEN <<>> ELSE pages[n]])

-----------------------------------------------------------------------------
(* process_folder *)

\* The calls of the try block, in the order made. The fault of a file is the
\* call that raises for it: "none" when no call raises.
TryCalls == <<"extract_text", "find_label_value", "extract_matricula",
              "extract_numero_processo", "extract_last_date">>

CallIndex(c) == CHOOSE n \in DOMAIN TryCalls : TryCalls[n] = c

\* call c of the try block returned for file f
Returned(f, c) == f.fault = "none" \/ CallIndex(c) < CallIndex(f.fault)

\* the try block left through the except clause
Raised(f) == f.fault # "none"

\* The local variables after the try block, per document and fault; a
\* variable whose assignment was not reached holds no value of this document.
Unbound == [type |-> "unbound"]

TryLocals ==
    [d \in DOMAIN Documents |->
        LET txt == extract_text(Documents[d])
        IN  [requerente |-> find_label_value(txt, Requerente, DefaultMaxChars),
             matricula |-> extract_matricula(txt),
             processo |-> extract_numero_processo(txt),
             data_aut |-> extract_last_date(txt)]]

\* the call of the try block that assigns each local variable
AssignedBy ==
    [requerente |-> "find_label_value", matricula |-> "extract_matricula",
     processo |-> "extract_numero_processo", data_aut |-> "extract_last_date"]

Locals(f) ==
    [name \in DOMAIN AssignedBy |->
        IF Returned(f, AssignedBy[name]) THEN TryLocals[f.doc][name] ELSE Unbound]

\* a variant with one fixed shape for every row
SuccessRowFixedShape(f) ==
    LET row(v) ==
            [processo |-> v.processo, data_autuacao |-> v.data_aut,
             requerente |-> v.requerente, matricula |-> v.matricula,
             error |-> None]
    IN  row(Locals(f))

\* the dict appended at the end of the try block
SuccessRow(f) ==
    LET row(v) ==
            [processo |-> v.processo, data_autuacao |-> v.data_aut,
             requerente |-> v.requerente, matricula |-> v.matricula]
    IN  row(Locals(f))

\* a variant that reports what was extracted before the exception
ErrorRowPartial(f) ==
    LET got(v) == IF v = Unbound THEN None ELSE v
        row(v) ==
            [processo |-> got(v.processo), data_autuacao |-> got(v.data_aut),
             requerente |-> got(v.requerente), matricula |-> got(v.matricula),
             error |-> Str(<<f.fault>>)]
    IN  row(Locals(f))

\* the dict appended by the except clause; str(e) names the failed call
ErrorRow(f) ==
    [processo |-> None, data_autuacao |-> None, requerente |-> None,
     matricula |-> None, error |-> Str(<<f.fault>>)]

\* the elements of a set of numbers, ascending
RECURSIVE Ascending(_)
Ascending(S) ==
    IF S = {} THEN <<>> ELSE <<SetMin(S)>> \o Ascending(S \ {SetMin(S)})

Reverse(q) == [n \in DOMAIN q |-> q[Len(q) + 1 - n]]
Rotate(q) == IF q = <<>> THEN q ELSE Tail(q) \o <<Head(q)>>

\* folder.glob("*.pdf"): the matching paths, in the order the directory
\* happens to list them. A file name is its rank in the sort order of the
\* names; three listing orders stand for the orders a directory can have.
glob(fs) ==
    LET names == Ascending({n \in DOMAIN fs : fs[n].ext = "pdf"})
    IN  {names, Reverse(names), Rotate(names)}

\* sorted(...)
RECURSIVE sorted(_)
sorted(g) ==
    IF g = <<>> THEN <<>>
    ELSE LET least == SetMin(Range(g))
             at == SetMin({n \in DOMAIN g : g[n] = least})
         IN  <<least>> \o sorted(SubSeq(g, 1, at - 1) \o SubSeq(g, at + 1, Len(g)))

\* pd.DataFrame(rows): one record per row, the columns are the keys seen
DataFrame(rs) ==
    [columns |-> UNION {DOMAIN rs[n] : n \in DOMAIN rs}, records |-> rs]

-----------------------------------------------------------------------------
(* Bounded sets of input texts: every concatenation of at most n pieces *)

RECURSIVE Concat(_)
Concat(ss) == IF ss = <<>> THEN <<>> ELSE Head(ss) \o Concat(Tail(ss))

TextsOf(pieces, n) ==
    {Concat(ps) : ps \in UNION {[1..k -> pieces] : k \in 0..n}}

\* the program is not running while one extractor is exercised on its own
MainIdle ==
    /\ pc = "idle" /\ folder_ok = FALSE /\ files = <<>> /\ pdfs = <<>>
    /\ i = 0 /\ rows = <<>> /\ df = None /\ written = <<>>

-----------------------------------------------------------------------------
(* extract_last_date applied to a bounded set of texts *)

MaxDatePieces == 3

NumericDate == <<"0", "1", "/", "0", "2", "/", "2", "0", "1", "0">>
LongDate == <<"0", "8", " ", "d", "e", " ", "j", "a", "n", "e", "i", "r", "o",
              " ", "d", "e", " ", "2", "0", "1", "6">>
UpperLongDate == <<"3", " ", "D", "E", "\n", "M", "a", "i", "o", " ", "d", "e",
                   " ", "2", "0", "1", "7">>
DatePieces == {NumericDate, LongDate, UpperLongDate,
               <<" ">>, <<"x">>, <<"1">>, <<"/">>, <<"2", "0">>}

InitLastDate ==
    /\ MainIdle
    /\ text \in TextsOf(DatePieces, MaxDatePieces)
    /\ label = <<>> /\ max_chars = 0
    /\ result = None /\ called = FALSE

CallExtractLastDate ==
    /\ ~called
    /\ result' = extract_last_date(text)
    /\ called' = TRUE
    /\ UNCHANGED <<mainVars, text, label, max_chars>>

SpecLastDate == InitLastDate /\ [][CallExtractLastDate]_vars

-----------------------------------------------------------------------------
(* extract_numero_processo applied to a bounded set of texts *)

MaxProcessoPieces == 3

Processo == <<"P", "r", "o", "c", "e", "s", "s", "o">>
ProcessoN213 == Processo \o <<" ", "N", "o_ord", " ", "2", "1", "3", "/", "2", "0", "1", "6">>
ProcessoPieces == {ProcessoN213, <<"p", "r", "o", "c", "e", "s", "s", "o", ":">>,
                   <<"1", "2", "3">>, <<"4", "5", "6", "7">>, <<"7", "8", "9">>, <<"9">>,
                   <<"/">>, <<" ">>, <<"x">>, <<".">>, <<"\n", "N", "o">>}

InitProcesso ==
    /\ MainIdle
    /\ text \in TextsOf(ProcessoPieces, MaxProcessoPieces)
    /\ label = <<>> /\ max_chars = 0
    /\ result = None /\ called = FALSE

CallExtractNumeroProcesso ==
    /\ ~called
    /\ result' = extract_numero_processo(text)
    /\ called' = TRUE
    /\ UNCHANGED <<mainVars, text, label, max_chars>>

SpecProcesso == InitProcesso /\ [][CallExtractNumeroProcesso]_vars

-----------------------------------------------------------------------------
(* extract_matricula applied to a bounded set of texts *)

MaxMatriculaPieces == 3

Matricula == <<"M", "a", "t", "r", "i_acute", "c", "u", "l", "a">>
Matricula197 == Matricula \o <<":", " ", "1", "9", "7", ".", "9", "4", "2", "-", "6">>
MatriculaPieces == {Matricula197, <<"m", "a", "t", "r", "i", "c", "u", "l", "a">>,
                    <<"M", "A", "T", "R", "I_acute", "C", "U", "L", "A", ":">>,
                    <<"5">>, <<" ">>, <<":">>, <<".">>, <<"x">>, <<"\n">>, <<"-", "7">>}

InitMatricula ==
    /\ MainIdle
    /\ text \in TextsOf(MatriculaPieces, MaxMatriculaPieces)
    /\ label = <<>> /\ max_chars = 0
    /\ result = None /\ called = FALSE

CallExtractMatricula ==
    /\ ~called
    /\ result' = extract_matricula(text)
    /\ called' = TRUE
    /\ UNCHANGED <<mainVars, text, label, max_chars>>

SpecMatricula == InitMatricula /\ [][CallExtractMatricula]_vars

-----------------------------------------------------------------------------
(* find_label_value applied to a bounded set of texts *)

MaxLabelPieces == 4
SmallMaxChars == 3

LabelPieces == {Requerente \o <<":">>,
                <<"r", "E", "Q", "U", "E", "R", "E", "N", "T", "E", ":">>,
                <<"A", "n", "a">>, <<"B", "o">>, <<" ">>, <<"\n">>,
                <<"\r", "\n">>, <<"I_dot">>}

InitLabel ==
    /\ MainIdle
    /\ text \in TextsOf(LabelPieces, MaxLabelPieces)
    /\ label = Requerente
    /\ max_chars \in {SmallMaxChars, DefaultMaxChars}
    /\ result = None /\ called = FALSE

CallFindLabelValue ==
    /\ ~called
    /\ result' = find_label_value(text, label, max_chars)
    /\ called' = TRUE
    /\ UNCHANGED <<mainVars, text, label, max_chars>>

SpecLabel == InitLabel /\ [][CallFindLabelValue]_vars

-----------------------------------------------------------------------------
(* main and process_folder as a state machine *)

MaxFiles == 4

\* What a file of the folder can be: not a *.pdf file; a PDF that cannot be
\* opened; a PDF with text, where any call of the try block may raise; a PDF
\* without text.
FileKinds ==
    {[ext |-> "txt", doc |-> "blank", fault |-> "none"],
     [ext |-> "pdf", doc |-> "corrupt", fault |-> "extract_text"],
     [ext |-> "pdf", doc |-> "blank", fault |-> "none"]}
    \cup {[ext |-> "pdf", doc |-> "full", fault |-> c] :
             c \in {"none"} \cup (Range(TryCalls) \ {"extract_text"})}

\* args.output's suffix
Suffixes == {<<".", "X", "L", "S", "X">>, <<".", "x", "l", "s">>,
             <<".", "c", "s", "v">>, <<>>}

CallIdle ==
    /\ text = <<>> /\ label = <<>> /\ max_chars = 0
    /\ result = None /\ called = FALSE

Init ==
    /\ CallIdle
    /\ pc = "main"
    /\ folder_ok \in BOOLEAN
    /\ files \in IF folder_ok
                 THEN UNION {[1..n -> FileKinds] : n \in 0..MaxFiles}
                 ELSE {<<>>}
    /\ pdfs = <<>> /\ i = 0 /\ rows = <<>> /\ df = None /\ written = <<>>

\* a variant without the early return: process_folder runs on the invalid path
main_invalid_no_return ==
    /\ pc = "main" /\ ~folder_ok
    /\ pdfs' = <<>> /\ rows' = <<>> /\ i' = 0
    /\ pc' = "loop"
    /\ UNCHANGED <<folder_ok, files, df, written, callVars>>

\* main: the input path does not exist or is not a directory
main_invalid ==
    /\ pc = "main" /\ ~folder_ok
    /\ pc' = "done"
    /\ UNCHANGED <<folder_ok, files, pdfs, i, rows, df, written, callVars>>

\* main calls process_folder, which lists and sorts the PDFs
main_process_folder ==
    /\ pc = "main" /\ folder_ok
    /\ \E g \in glob(files) : pdfs' = sorted(g)
    /\ rows' = <<>> /\ i' = 0
    /\ pc' = "loop"
    /\ UNCHANGED <<folder_ok, files, df, written, callVars>>

\* a variant without the try/except: an exception ends the program
process_folder_iter_no_except ==
    /\ pc = "loop" /\ i < Len(pdfs)
    /\ LET f == files[pdfs[i + 1]]
       IN  IF Raised(f)
           THEN pc' = "done" /\ UNCHANGED <<rows, i>>
           ELSE /\ rows' = Append(rows, SuccessRow(f))
                /\ i' = i + 1
                /\ pc' = pc
    /\ UNCHANGED <<folder_ok, files, pdfs, df, written, callVars>>

\* one iteration of the for loop of process_folder
process_folder_iter ==
    /\ pc = "loop" /\ i < Len(pdfs)
    /\ LET f == files[pdfs[i + 1]]
       IN  rows' = Append(rows, IF Raised(f) THEN ErrorRow(f) ELSE SuccessRow(f))
    /\ i' = i + 1
    /\ UNCHANGED <<pc, folder_ok, files, pdfs, df, written, callVars>>

\* the loop is exhausted: process_folder returns the DataFrame
process_folder_return ==
    /\ pc = "loop" /\ i = Len(pdfs)
    /\ df' = DataFrame(rows)
    /\ pc' = "write"
    /\ UNCHANGED <<folder_ok, files, pdfs, i, rows, written, callVars>>

\* main writes the table: to_excel for .xlsx/.xls, to_csv otherwise
main_write ==
    /\ pc = "write"
    /\ \E suffix \in Suffixes :
          written' = Append(written,
              [format |-> IF lower(suffix) \in {<<".", "x", "l", "s", "x">>,
                                                <<".", "x", "l", "s">>}
                          THEN "excel" ELSE "csv",
               table |-> df])
    /\ pc' = "done"
    /\ UNCHANGED <<folder_ok, files, pdfs, i, rows, df, callVars>>

Next ==
    \/ main_invalid
    \/ main_process_folder
    \/ process_folder_iter
    \/ process_folder_return
    \/ main_write

Spec == Init /\ [][Next]_vars

-----------------------------------------------------------------------------
(* Properties of process_folder and main *)

PdfNames == {n \in DOMAIN files : files[n].ext = "pdf"}

\* the k-th *.pdf file of the folder in sorted file name order
KthPdf(k) == CHOOSE n \in PdfNames : Cardinality({m \in PdfNames : m < n}) = k - 1

HasError(r) == "error" \in DOMAIN r
DataKeys == {"processo", "data_autuacao", "requerente", "matricula"}

\* the rows of the two documents of the model when nothing raises
FullRow ==
    [processo |-> Str(<<"2", "1", "3", "/", "2", "0", "1", "6">>),
     data_autuacao |-> Str(<<"0", "1", "/", "0", "2", "/", "2", "0", "1", "0">>),
     requerente |-> Str(<<"A", "n", "a">>),
     matricula |-> Str(<<"1", "9", "7", ".", "9", "4", "2", "-", "6">>)]
BlankRow ==
    [processo |-> None, data_autuacao |-> None, requerente |-> None,
     matricula |-> None]

\* every row the program holds: the list being built, the DataFrame, the
\* tables written
AllRows ==
    Range(rows) \cup (IF df = None THEN {} ELSE Range(df.records))
    \cup UNION {Range(written[n].table.records) : n \in DOMAIN written}

\* C1: process_folder produces exactly one row per *.pdf file, in sorted
\* file name order, whatever subset of the documents fails: a document
\* whose processing raises gets an error row and the loop goes on, so the
\* loop can always take its next step and, once process_folder has
\* returned, the row count equals the document count.
C1_OneRowPerDocument ==
    /\ pc = "loop" =>
          /\ Len(rows) = i /\ i <= Len(pdfs)
          /\ ENABLED (process_folder_iter \/ process_folder_return)
    /\ (folder_ok /\ pc \in {"write", "done"}) =>
          /\ Len(rows) = Cardinality(PdfNames)
          /\ \A k \in DOMAIN rows :
                LET f == files[KthPdf(k)]
                IN  IF f.fault # "none" THEN HasError(rows[k])
                    ELSE rows[k] = (IF f.doc = "full" THEN FullRow ELSE BlankRow)

\* three valid text-bearing PDFs and one corrupted file gave four rows
C1_Witness ==
    /\ pc = "done" /\ Len(rows) = 4
    /\ Cardinality({n \in PdfNames : files[n].doc = "full" /\ files[n].fault = "none"}) = 3
    /\ Cardinality({n \in PdfNames : files[n].doc = "corrupt"}) = 1
    /\ Cardinality({k \in DOMAIN rows : HasError(rows[k])}) = 1
    /\ Cardinality({k \in DOMAIN rows : rows[k] = FullRow}) = 3

\* C2: in every state of the result table, a row whose error field is set
\* has processo, data_autuacao, requerente and matricula all None.
C2_ErrorRowsHaveNoData ==
    \A r \in AllRows :
        HasError(r) => \A key \in DataKeys : r[key] = None

\* an error row of a document whose last extractor raised, after the
\* other three had returned values
C2_Witness ==
    \E k \in DOMAIN rows :
        /\ HasError(rows[k])
        /\ files[pdfs[k]].doc = "full"
        /\ files[pdfs[k]].fault = "extract_last_date"

\* C3: with an invalid input path no document is processed and no output
\* is ever written; otherwise the output is written exactly once, after
\* process_folder has finished all documents, also when no document was
\* found or every document failed.
C3_OutputWrittenOnce ==
    /\ ~folder_ok => /\ written = <<>> /\ rows = <<>> /\ i = 0
                     /\ pc \in {"main", "done"}
    /\ Len(written) <= 1
    /\ written # <<>> =>
          /\ pc = "done" /\ i = Len(pdfs)
          /\ Len(rows) = Cardinality(PdfNames)
          /\ written[1].table = DataFrame(rows)
    /\ (folder_ok /\ pc = "done") => Len(written) = 1

\* the output was written although every document failed
C3_Witness ==
    /\ pc = "done" /\ folder_ok /\ Len(written) = 1
    /\ Len(rows) >= 2
    /\ \A k \in DOMAIN rows : HasError(rows[k])

\* C9: a row carries an error key exactly when the processing of its
\* document raised; the other rows have exactly the four data keys (the
\* row of a document without text is such a row, with four None), so the
\* table of a run in which no document fails has no error column.
C9_ErrorKeyOnlyOnFailure ==
    /\ \A k \in DOMAIN rows :
          LET f == files[pdfs[k]]
          IN  /\ HasError(rows[k]) <=> f.fault # "none"
              /\ f.fault = "none" => DOMAIN rows[k] = DataKeys
              /\ (f.fault = "none" /\ f.doc = "blank") => rows[k] = BlankRow
    /\ \A n \in DOMAIN written :
          (\A m \in PdfNames : files[m].fault = "none")
              => "error" \notin written[n].table.columns

\* a table was written for a run without failure that had a document
\* without text
C9_Witness ==
    /\ written # <<>> /\ Len(rows) >= 2
    /\ \A k \in DOMAIN rows : ~HasError(rows[k])
    /\ \E k \in DOMAIN rows : files[pdfs[k]].doc = "blank" /\ rows[k] = BlankRow
    /\ written[1].table.columns = DataKeys

-----------------------------------------------------------------------------
(* Properties of the extractors *)

\* the positions of a text where a pattern matches
MatchStarts(t, pat) == {k \in 1..Len(t) : Try(pat, t, k).end # 0}

\* the positions where a string occurs in a text, character for character
Occurrences(t, sub) == {k \in 1..Len(t) : Literal(t, k, sub, FALSE) # 0}

\* the matches of both date patterns pooled: <<start, matched text>>
PooledDates(t) ==
    {<<k, Slice(t, k, long_date(t, k).end)>> : k \in MatchStarts(t, "long_date")}
    \cup {<<k, Slice(t, k, numeric_date(t, k).end)>> : k \in MatchStarts(t, "numeric_date")}

\* C4: extract_last_date returns the text of the match with the greatest
\* start offset among the matches of the long-form and of the numeric
\* pattern pooled together, and None exactly when neither pattern matches.
C4_LastDateIsLatestMatch ==
    called =>
        LET pool == PooledDates(text)
        IN  IF pool = {} THEN result = None
            ELSE \E m \in pool :
                    /\ \A q \in pool : q[1] <= m[1]
                    /\ result = Str(m[2])

\* a numeric date earlier and a long-form date later: the long-form date
\* is returned
C4_Witness ==
    /\ called
    /\ \E a \in MatchStarts(text, "numeric_date"), b \in MatchStarts(text, "long_date") :
          /\ a < b
          /\ \A q \in PooledDates(text) : q[1] <= b
    /\ result = Str(LongDate)

Number213 == <<"2", "1", "3", "/", "2", "0", "1", "6">>

\* C5 as stated: for all text containing "Processo N<o_ord> 213/2016",
\* whatever precedes or follows it, extract_numero_processo returns
\* "213/2016".
C5_AnyTextContaining ==
    (called /\ Occurrences(text, ProcessoN213) # {}) => result = Str(Number213)

\* the first match of the 'Processo' pattern is an occurrence of
\* "Processo N<o_ord> 213/2016" that no digit, '/', '.' or '-' follows
C5_FirstMatchIsThePhrase ==
    /\ MatchStarts(text, "processo_pattern") # {}
    /\ LET s == SetMin(MatchStarts(text, "processo_pattern"))
       IN  /\ s \in Occurrences(text, ProcessoN213)
           /\ ~InClass("number", At(text, s + Len(ProcessoN213)))

\* C5 amended: for all text in which the first match of the 'Processo'
\* pattern is an occurrence of "Processo N<o_ord> 213/2016" that is not
\* immediately followed by a digit, '/', '.' or '-',
\* extract_numero_processo returns "213/2016".
C5_FirstMatchNotExtended ==
    (called /\ C5_FirstMatchIsThePhrase) => result = Str(Number213)

\* the phrase preceded by a 'processo:' that no number follows, and
\* followed by more text
C5_Witness ==
    /\ called /\ C5_FirstMatchIsThePhrase
    /\ Occurrences(text, <<"p", "r", "o", "c", "e", "s", "s", "o", ":">>) # {}
    /\ SetMin(MatchStarts(text, "processo_pattern")) > 1
    /\ SetMin(MatchStarts(text, "processo_pattern")) + Len(ProcessoN213) <= Len(text)
    /\ result = Str(Number213)

Number197 == <<"1", "9", "7", ".", "9", "4", "2", "-", "6">>

\* C6 as stated: for all text containing "Matr<i_acute>cula: 197.942-6",
\* whatever precedes or follows it, extract_matricula returns "197.942-6".
C6_AnyTextContaining ==
    (called /\ Occurrences(text, Matricula197) # {}) => result = Str(Number197)

\* the first match of the primary pattern is an occurrence of
\* "Matr<i_acute>cula: 197.942-6" that no digit, '.', '-' or '/' follows
C6_FirstMatchIsThePhrase ==
    /\ MatchStarts(text, "matricula_primary") # {}
    /\ LET s == SetMin(MatchStarts(text, "matricula_primary"))
       IN  /\ s \in Occurrences(text, Matricula197)
           /\ ~InClass("number", At(text, s + Len(Matricula197)))

\* C6 amended: for all text in which the first match of the matricula
\* pattern is an occurrence of "Matr<i_acute>cula: 197.942-6" that is not
\* immediately followed by a digit, '.', '-' or '/', extract_matricula
\* returns "197.942-6".
C6_FirstMatchNotExtended ==
    (called /\ C6_FirstMatchIsThePhrase) => result = Str(Number197)

\* the phrase preceded by a 'matricula' that no number follows, and
\* followed by more text
C6_Witness ==
    /\ called /\ C6_FirstMatchIsThePhrase
    /\ SetMin(MatchStarts(text, "matricula_primary")) > 1
    /\ Occurrences(text, <<"m", "a", "t", "r", "i", "c", "u", "l", "a">>) # {}
    /\ SetMin(MatchStarts(text, "matricula_primary")) + Len(Matricula197) <= Len(text)
    /\ result = Str(Number197)

\* C10: the secondary pattern of extract_matricula never produces a value:
\* where the primary pattern finds no match the secondary finds none
\* either, and the result is the group of the primary pattern's first
\* match, or None.
C10_SecondaryPatternIsDead ==
    called =>
        LET first == MatchStarts(text, "matricula_primary")
            second == MatchStarts(text, "matricula_secondary")
        IN  /\ first = {} => second = {}
            /\ result = IF first = {} THEN None
                        ELSE LET m == matricula_primary(text, SetMin(first))
                             IN  Str(Slice(text, m.gs, m.ge))

\* a text the secondary pattern matches: the label, whitespace, the value
C10_Witness ==
    /\ called
    /\ MatchStarts(text, "matricula_secondary") # {}
    /\ Occurrences(text, Matricula197) = {}
    /\ result # None

\* C7: find_label_value looks only at the first case-insensitive
\* occurrence of '<label>:' in the text: it returns the first non-blank
\* line, trimmed, of the max_chars characters after that occurrence, None
\* when the label is absent or that window has no non-blank character, and
\* never an empty or whitespace-only string.
C7_FirstOccurrenceWindow ==
    called =>
        LET lbl == label \o <<":">>
            occ == {k \in 1..Len(text) : Literal(text, k, lbl, TRUE) # 0}
            from == SetMin(occ) + Len(lbl)
            window == Slice(text, from, from + max_chars)
            nonblank == {n \in DOMAIN window : ~IsSpace(window[n])}
            a == SetMin(nonblank)
            b == SetMax({n \in nonblank :
                            n >= a /\ \A j \in a..n : ~IsLineBreak(window[j])})
        IN  /\ result # Str(<<>>)
            /\ result = IF occ = {} \/ nonblank = {} THEN None
                        ELSE Str(SubSeq(window, a, b))

=============================================================================
